---- MODULE Spec2Model ----
(***************************************************************************)
(* The notebook module-5/memoryschema_collection.ipynb: a chatbot that     *)
(* keeps a collection of memories per user.  Modelled are                  *)
(*   - _set_env, the environment setup cell;                               *)
(*   - the stand-alone store demonstration (in_memory_store);              *)
(*   - the compiled two-node graph (call_model, write_memory) with its     *)
(*     store (across_thread_memory) and checkpointer                       *)
(*     (within_thread_memory).                                             *)
(* The chat model and the Trustcall extractor are external: what they      *)
(* return is a nondeterministic choice from bounded sets.  The store and   *)
(* the checkpointer are library objects, modelled by their documented      *)
(* behaviour (InMemoryStore.put / search, MemorySaver, add_messages).      *)
(***************************************************************************)
EXTENDS Naturals, Sequences, FiniteSets, TLC

VARIABLES
    environ,            \* os.environ restricted to the variables _set_env is called on
    env_call,           \* the last _set_env call: what it read, whether it prompted
    memory_collection,  \* model_with_structure.invoke(...).memories
    in_memory_store,    \* the stand-alone demonstration's InMemoryStore
    demo_pc,            \* position in the demonstration cells
    demo_keys,          \* the keys the demonstration generated, in order
    demo_found,         \* what in_memory_store.search returned
    across_thread_memory, \* the graph's InMemoryStore
    within_thread_memory, \* the graph's MemorySaver: thread_id -> checkpointed messages
    pc,                 \* the node the running turn is at (END: no turn is running)
    config,             \* the running turn's config["configurable"]
    messages,           \* the running turn's MessagesState["messages"]
    input_messages,     \* the running turn's input
    memories,           \* call_model's local: what store.search returned
    system_msg,         \* call_model's local: the formatted system prompt
    extractor_input,    \* what write_memory passed to trustcall_extractor.invoke
    result,             \* what trustcall_extractor.invoke returned
    uuid_count,         \* how many uuid4 values have been generated
    ran,                \* the nodes that have run in the running turn, in order
    turns_done,         \* thread_id -> number of turns completed on the thread
    produced,           \* thread_id -> per turn on the thread, the messages it added
    written_in          \* <<namespace, key>> -> thread_id of the turn that put it last

vars == <<environ, env_call, memory_collection, in_memory_store, demo_pc, demo_keys,
          demo_found, across_thread_memory, within_thread_memory, pc, config, messages,
          input_messages, memories, system_msg, extractor_input, result, uuid_count,
          ran, turns_done, produced, written_in>>

env_vars == <<environ, env_call>>
demo_vars == <<memory_collection, in_memory_store, demo_pc, demo_keys, demo_found>>
graph_vars == <<across_thread_memory, within_thread_memory, pc, config, messages,
                input_messages, memories, system_msg, extractor_input, result,
                uuid_count, ran, turns_done, produced, written_in>>

(***************************************************************************)
(* Bounds of the model.                                                    *)
(***************************************************************************)
MaxTurns == 3           \* turns, over all threads, under Next
MaxUuid == 3            \* uuid4 values generated under Next
MaxResponses == 2       \* responses in one extractor result under Next
MaxRecordsLong == 11    \* NextLong starts a turn while no more records than this exist
MaxExtracted == 3       \* memories in memory_collection

\* BaseStore.search(namespace_prefix, /, *, query=None, filter=None, limit=10,
\* offset=0): both nodes call store.search(namespace) and pass no limit.
SearchLimit == 10

None == "None"

\* A value that is either None or a list: None is the empty set, a list the
\* set that holds it, so that None and the empty list differ.
PyNone == {}

PyList(list) == {list}

Users == {"1", "2"}
Threads == {"1", "2"}
HumanContents == {"Hi, my name is Lance"}
AiContents == {"Hi Lance!"}
MemoryContents == {"User's name is Lance.", "User likes to bike."}

(***************************************************************************)
(* Sequence helpers.                                                       *)
(***************************************************************************)
Take(s, n) == SubSeq(s, 1, IF n < Len(s) THEN n ELSE Len(s))

IsPrefix(p, s) == Len(p) <= Len(s) /\ SubSeq(s, 1, Len(p)) = p

Keys(items) == {items[i].key : i \in 1..Len(items)}

IndexOf(items, key) == CHOOSE i \in 1..Len(items) : items[i].key = key

(***************************************************************************)
(* class Memory(BaseModel): content: str                                   *)
(***************************************************************************)
Memory(content) == [content |-> content]

\* A dump that keeps the memory under a field of its own.
model_dump_nested(m) == [memory |-> [content |-> m.content]]

\* Memory.model_dump(): the dictionary of the model's fields.
model_dump(m) == [content |-> m.content]

(***************************************************************************)
(* InMemoryStore.  Its data is a dict namespace -> dict key -> item; a     *)
(* dict keeps insertion order and keeps a key's place when its value is    *)
(* replaced.  A namespace nothing was put under holds no item.             *)
(***************************************************************************)
namespace_for_memory(user_id) == <<user_id, "memories">>

call_model_namespace(user_id) == <<"memories", user_id>>

\* The namespace with the demonstration's user_id = "1" left in it.
write_memory_namespace_fixed_user(user_id) == <<"memories", "1">>

write_memory_namespace(user_id) == <<"memories", user_id>>

Namespaces == {call_model_namespace(u) : u \in Users}
                  \cup {namespace_for_memory(u) : u \in Users}

InMemoryStore == [ns \in Namespaces |-> <<>>]

\* A put that keeps one record per namespace, as a single profile is kept.
put_single_record(store, namespace, key, value) ==
    [store EXCEPT ![namespace] = <<[key |-> key, value |-> value]>>]

\* store.put(namespace, key, value)
put(store, namespace, key, value) ==
    LET items == store[namespace]
        item == [key |-> key, value |-> value]
    IN  [store EXCEPT ![namespace] =
            IF key \in Keys(items)
            THEN [items EXCEPT ![IndexOf(items, key)] = item]
            ELSE Append(items, item)]

RECURSIVE Flatten(_, _)
Flatten(store, nss) ==
    IF nss = {} THEN <<>>
    ELSE LET ns == CHOOSE n \in nss : TRUE
         IN  store[ns] \o Flatten(store, nss \ {ns})

\* store.search(namespace_prefix, limit=limit): the items of every namespace
\* the prefix matches, cut to the first `limit`.
search_limit(store, namespace_prefix, limit) ==
    Take(Flatten(store, {ns \in DOMAIN store : IsPrefix(namespace_prefix, ns)}), limit)

\* store.search(namespace_prefix)
search(store, namespace_prefix) == search_limit(store, namespace_prefix, SearchLimit)

(***************************************************************************)
(* Messages.  add_messages gives every message that has no id a fresh      *)
(* uuid; the model names that fresh id by the thread and the position at   *)
(* which the message entered the thread's state, which no other message    *)
(* shares.                                                                 *)
(***************************************************************************)
\* A message constructed without an id.
NoId == <<>>

HumanMessage(content) == [type |-> "human", content |-> content, id |-> NoId]

AIMessage(content) == [type |-> "ai", content |-> content, id |-> NoId]

SystemMessage(content) == [type |-> "system", content |-> content, id |-> NoId]

RECURSIVE add_messages(_, _, _)
add_messages(left, right, thread_id) ==
    IF right = <<>> THEN left
    ELSE LET m == Head(right)
             withId == IF m.id = NoId
                       THEN [m EXCEPT !.id = <<thread_id, Len(left) + 1>>]
                       ELSE m
             at == {i \in 1..Len(left) : left[i].id = withId.id}
         IN  add_messages(
                 IF at = {} THEN Append(left, withId)
                 ELSE [left EXCEPT ![CHOOSE i \in at : TRUE] = withId],
                 Tail(right), thread_id)

\* The run of messages without its last one.
merge_message_runs_without_last(msgs) ==
    IF msgs = <<>> THEN msgs ELSE SubSeq(msgs, 1, Len(msgs) - 1)

\* merge_message_runs: consecutive messages of one type become one message,
\* their contents joined by a newline.
RECURSIVE merge_message_runs(_)
merge_message_runs(msgs) ==
    IF Len(msgs) < 2 THEN msgs
    ELSE LET rest == merge_message_runs(Tail(msgs))
             a == Head(msgs)
             b == Head(rest)
         IN  IF a.type = b.type
             THEN <<[a EXCEPT !.content = a.content \o "\n" \o b.content]>> \o Tail(rest)
             ELSE <<a>> \o rest

MODEL_SYSTEM_MESSAGE == "You are a helpful chatbot. Current Memory: "

TRUSTCALL_INSTRUCTION == "Reflect on following interaction."

\* "\n".join(f"- {mem.value['content']}" for mem in memories)
RECURSIVE format_info(_)
format_info(mems) ==
    IF mems = <<>> THEN ""
    ELSE IF Len(mems) = 1 THEN "- " \o mems[1].value["content"]
    ELSE "- " \o mems[1].value["content"] \o "\n" \o format_info(Tail(mems))

(***************************************************************************)
(* The graph: builder.add_node / add_edge, compiled with the checkpointer  *)
(* and the store.                                                          *)
(***************************************************************************)
START == "__start__"

END == "__end__"

Nodes == {"call_model", "write_memory"}

\* A graph in which write_memory leads back to call_model.
EdgesWithLoop == {<<START, "call_model">>, <<"call_model", "write_memory">>,
                  <<"write_memory", "call_model">>, <<"write_memory", END>>}

Edges == {<<START, "call_model">>, <<"call_model", "write_memory">>,
          <<"write_memory", END>>}

Successors(node) == {e[2] : e \in {d \in Edges : d[1] = node}}

\* A checkpointer that files the state under the user instead of the thread.
checkpoint_key_by_user(configurable) == configurable.user_id

\* The checkpointer files a thread's state under config["configurable"]["thread_id"].
checkpoint_key(configurable) == configurable.thread_id

MemorySaver == [k \in Threads \cup Users |-> <<>>]

\* One fixed key for every record, as a single profile is stored.
uuid4_fixed_key(count) == 1

\* str(uuid.uuid4()): a value no earlier call returned; the n-th call returns n.
uuid4(count) == count + 1

\* dict.get(key, default)
get(d, key, default) == IF key \in DOMAIN d THEN d[key] ELSE default

\* zip(a, b)
zip(a, b) == [i \in 1..(IF Len(a) < Len(b) THEN Len(a) ELSE Len(b)) |-> <<a[i], b[i]>>]

\* The key when the json_doc_id is not looked at: every response a new record.
put_key_always_new(rmeta, count) == uuid4(count)

\* The key of one put of write_memory: rmeta.get("json_doc_id", str(uuid.uuid4())),
\* after `count` uuid4 calls.  Python evaluates the default before the call, so
\* every put draws a uuid, whether or not the json_doc_id is there.
put_key(rmeta, count) == get(rmeta, "json_doc_id", uuid4(count))

\* for r, rmeta in zip(...): store.put(namespace, key, r.model_dump(mode="json"))
RECURSIVE save_memories(_, _, _, _, _)
save_memories(store, namespace, pairs, count, i) ==
    IF i > Len(pairs) THEN store
    ELSE save_memories(
             put(store, namespace, put_key(pairs[i][2], count + i - 1),
                 model_dump(pairs[i][1])),
             namespace, pairs, count, i + 1)

\* existing_memories: one (key, tool_name, value) per item, or None for no item.
existing_memories_of(existing_items) ==
    IF existing_items # <<>>
    THEN PyList([i \in 1..Len(existing_items) |->
                    <<existing_items[i].key, "Memory", existing_items[i].value>>])
    ELSE PyNone

(***************************************************************************)
(* What the external components may return.                                *)
(***************************************************************************)
SeqsUpTo(S, n) == UNION {[1..k -> S] : k \in 0..n}

ResponseMetadata(doc_ids) ==
    {[id |-> "call"]} \cup {[id |-> "call", json_doc_id |-> d] : d \in doc_ids}

\* trustcall_extractor.invoke(...): responses that adhere to Memory, and one
\* metadata per response, with a json_doc_id when the response patches a document.
ExtractorResults(contents, doc_ids, lens) ==
    {[responses |-> [i \in 1..Len(ps) |-> ps[i][1]],
      response_metadata |-> [i \in 1..Len(ps) |-> ps[i][2]]] :
        ps \in UNION {[1..k -> {Memory(c) : c \in contents} \X ResponseMetadata(doc_ids)] :
                         k \in lens}}

(***************************************************************************)
(* The state after the cells that construct the objects have run.          *)
(***************************************************************************)
EnvVars == {"LANGSMITH_API_KEY", "OPENAI_API_KEY"}

AllEnvVars == EnvVars \cup {"LANGSMITH_TRACING", "LANGSMITH_PROJECT"}

\* The setup cells have run and the keys were entered.
InitEnvIdle ==
    /\ environ = [v \in AllEnvVars |->
                     CASE v = "LANGSMITH_TRACING" -> "true"
                       [] v = "LANGSMITH_PROJECT" -> "langchain-academy"
                       [] OTHER -> "key-a"]
    /\ env_call = [var |-> None, read |-> None, prompted |-> FALSE, entered |-> None]

InitDemoIdle ==
    /\ memory_collection = <<>>
    /\ in_memory_store = InMemoryStore
    /\ demo_pc = "not run"
    /\ demo_keys = <<>>
    /\ demo_found = <<>>

InitGraph ==
    /\ across_thread_memory = InMemoryStore
    /\ within_thread_memory = MemorySaver
    /\ pc = END
    /\ config = [thread_id |-> None, user_id |-> None]
    /\ messages = <<>>
    /\ input_messages = <<>>
    /\ memories = <<>>
    /\ system_msg = None
    /\ extractor_input = [messages |-> <<>>, existing |-> PyNone]
    /\ result = [responses |-> <<>>, response_metadata |-> <<>>]
    /\ uuid_count = 0
    /\ ran = <<>>
    /\ turns_done = [t \in Threads |-> 0]
    /\ produced = [t \in Threads |-> <<>>]
    /\ written_in = <<>>

Init == InitEnvIdle /\ InitDemoIdle /\ InitGraph

(***************************************************************************)
(* _set_env(var), with `entered` what getpass would return.                *)
(***************************************************************************)
EnvValues == {"", "key-a", "key-b"}

\* `if env_value:` of a value that is None or a string.
truthy(env_value) == env_value # None /\ env_value # ""

\* A test that asks only whether the variable is set.
prompts_when_unset(env_value) == env_value = None

\* `if not env_value:`, the condition under which _set_env prompts.
prompts(env_value) == ~truthy(env_value)

\* os.environ after _set_env(var) on the environment env.
_set_env(env, var, entered) ==
    LET env_value == env[var]
        new_value == IF prompts(env_value) THEN entered ELSE env_value
    IN  [env EXCEPT ![var] = new_value]

\* What a _set_env(var) call on the environment read and asked.
set_env_call(var, entered) ==
    [var |-> var, read |-> environ[var], prompted |-> prompts(environ[var]),
     entered |-> IF prompts(environ[var]) THEN entered ELSE None]

\* The cell that calls _set_env("LANGSMITH_API_KEY") and then switches tracing on.
langsmith_cell(entered) ==
    /\ environ' = [_set_env(environ, "LANGSMITH_API_KEY", entered)
                      EXCEPT !["LANGSMITH_TRACING"] = "true",
                             !["LANGSMITH_PROJECT"] = "langchain-academy"]
    /\ env_call' = set_env_call("LANGSMITH_API_KEY", entered)
    /\ UNCHANGED <<demo_vars, graph_vars>>

\* The cell that calls _set_env("OPENAI_API_KEY").
openai_cell(entered) ==
    /\ environ' = _set_env(environ, "OPENAI_API_KEY", entered)
    /\ env_call' = set_env_call("OPENAI_API_KEY", entered)
    /\ UNCHANGED <<demo_vars, graph_vars>>

\* The process may start with each key unset, empty or set.
InitEnv ==
    /\ environ \in {e \in [AllEnvVars -> EnvValues \cup {None, "false"}] :
                       /\ e["LANGSMITH_TRACING"] \in {None, "false"}
                       /\ e["LANGSMITH_PROJECT"] = None
                       /\ \A v \in EnvVars : e[v] # "false"}
    /\ env_call = [var |-> None, read |-> None, prompted |-> FALSE, entered |-> None]
    /\ InitDemoIdle
    /\ InitGraph

NextEnv ==
    \/ \E entered \in EnvValues : langsmith_cell(entered)
    \/ \E entered \in EnvValues : openai_cell(entered)

SpecEnv == InitEnv /\ [][NextEnv]_vars

(***************************************************************************)
(* The stand-alone store demonstration.                                    *)
(***************************************************************************)
DemoContents == {"User's name is Lance.", "User likes to bike.", "User lives in SF."}

\* memory_collection = model_with_structure.invoke(...): the memories the
\* model extracted, any number of them.
extract_memories(extracted) ==
    /\ demo_pc = "not run"
    /\ memory_collection' = extracted
    /\ demo_pc' = "extracted"
    /\ UNCHANGED <<in_memory_store, demo_keys, demo_found, uuid_count>>
    /\ UNCHANGED <<env_vars, across_thread_memory, within_thread_memory, pc, config,
                   messages, input_messages, memories, system_msg, extractor_input,
                   result, ran, turns_done, produced, written_in>>

\* The cell that creates in_memory_store and puts memories[0] and memories[1],
\* each under a new uuid.  memories[i] of a shorter list raises IndexError and
\* the cell stops there.
save_to_store ==
    /\ demo_pc = "extracted"
    /\ LET user_id == "1"
           namespace == namespace_for_memory(user_id)
           key1 == uuid4(uuid_count)
           key2 == uuid4(uuid_count + 1)
           store0 == InMemoryStore
           store1 == put(store0, namespace, key1, model_dump(memory_collection[1]))
           store2 == put(store1, namespace, key2, model_dump(memory_collection[2]))
       IN  CASE Len(memory_collection) = 0 ->
                    /\ in_memory_store' = store0
                    /\ demo_keys' = <<key1>>
                    /\ uuid_count' = uuid_count + 1
                    /\ demo_pc' = "IndexError"
              [] Len(memory_collection) = 1 ->
                    /\ in_memory_store' = store1
                    /\ demo_keys' = <<key1, key2>>
                    /\ uuid_count' = uuid_count + 2
                    /\ demo_pc' = "IndexError"
              [] OTHER ->
                    /\ in_memory_store' = store2
                    /\ demo_keys' = <<key1, key2>>
                    /\ uuid_count' = uuid_count + 2
                    /\ demo_pc' = "saved"
    /\ UNCHANGED <<memory_collection, demo_found>>
    /\ UNCHANGED <<env_vars, across_thread_memory, within_thread_memory, pc, config,
                   messages, input_messages, memories, system_msg, extractor_input,
                   result, ran, turns_done, produced, written_in>>

\* for m in in_memory_store.search(namespace_for_memory): print(m.dict())
search_store ==
    /\ demo_pc \in {"saved", "IndexError"}
    /\ demo_found' = search(in_memory_store, namespace_for_memory("1"))
    /\ demo_pc' = "searched"
    /\ UNCHANGED <<memory_collection, in_memory_store, demo_keys, uuid_count>>
    /\ UNCHANGED <<env_vars, across_thread_memory, within_thread_memory, pc, config,
                   messages, input_messages, memories, system_msg, extractor_input,
                   result, ran, turns_done, produced, written_in>>

NextDemo ==
    \/ \E extracted \in SeqsUpTo({Memory(c) : c \in DemoContents}, MaxExtracted) :
           extract_memories(extracted)
    \/ save_to_store
    \/ search_store

SpecDemo == Init /\ [][NextDemo]_vars

(***************************************************************************)
(* One turn: graph.stream({"messages": input_messages}, config).           *)
(***************************************************************************)
\* The turn leaves `node` for one of its successors; reaching END ends the turn.
Advance(node, thread_id) ==
    /\ pc' \in Successors(node)
    /\ turns_done' = IF pc' = END
                     THEN [turns_done EXCEPT ![thread_id] = @ + 1]
                     ELSE turns_done

Invoke(user_id, thread_id, content) ==
    /\ pc = END
    /\ config' = [thread_id |-> thread_id, user_id |-> user_id]
    /\ input_messages' = <<HumanMessage(content)>>
    /\ messages' = add_messages(within_thread_memory[checkpoint_key(config')],
                                input_messages', thread_id)
    /\ within_thread_memory' =
           [within_thread_memory EXCEPT ![checkpoint_key(config')] = messages']
    /\ produced' = [produced EXCEPT ![thread_id] =
                        Append(@, SubSeq(messages',
                                         Len(messages') - Len(input_messages') + 1,
                                         Len(messages')))]
    /\ ran' = <<>>
    /\ memories' = <<>>
    /\ system_msg' = None
    /\ extractor_input' = [messages |-> <<>>, existing |-> PyNone]
    /\ result' = [responses |-> <<>>, response_metadata |-> <<>>]
    /\ Advance(START, thread_id)
    /\ UNCHANGED <<across_thread_memory, uuid_count, written_in>>
    /\ UNCHANGED <<env_vars, demo_vars>>

call_model(response_content) ==
    /\ pc = "call_model"
    /\ LET user_id == config.user_id
           namespace == call_model_namespace(user_id)
           found == search(across_thread_memory, namespace)
           info == format_info(found)
           response == AIMessage(response_content)
       IN  /\ memories' = found
           /\ system_msg' = MODEL_SYSTEM_MESSAGE \o info
           /\ messages' = add_messages(messages, <<response>>, config.thread_id)
    /\ within_thread_memory' =
           [within_thread_memory EXCEPT ![checkpoint_key(config)] = messages']
    /\ produced' = [produced EXCEPT ![config.thread_id] =
                        [@ EXCEPT ![Len(@)] = Append(@, messages'[Len(messages')])]]
    /\ ran' = Append(ran, "call_model")
    /\ Advance("call_model", config.thread_id)
    /\ UNCHANGED <<across_thread_memory, config, input_messages, extractor_input,
                   result, uuid_count, written_in>>
    /\ UNCHANGED <<env_vars, demo_vars>>

write_memory(extracted) ==
    /\ pc = "write_memory"
    /\ LET user_id == config.user_id
           namespace == write_memory_namespace(user_id)
           existing_items == search(across_thread_memory, namespace)
           existing_memories == existing_memories_of(existing_items)
           updated_messages ==
               merge_message_runs(<<SystemMessage(TRUSTCALL_INSTRUCTION)>> \o messages)
           pairs == zip(extracted.responses, extracted.response_metadata)
       IN  /\ extractor_input' = [messages |-> updated_messages,
                                  existing |-> existing_memories]
           /\ result' = extracted
           /\ across_thread_memory' =
                  save_memories(across_thread_memory, namespace, pairs, uuid_count, 1)
           /\ uuid_count' = uuid_count + Len(pairs)
           /\ written_in' =
                  [k \in {<<namespace, put_key(pairs[i][2], uuid_count + i - 1)>> :
                             i \in 1..Len(pairs)} |-> config.thread_id] @@ written_in
    /\ ran' = Append(ran, "write_memory")
    /\ Advance("write_memory", config.thread_id)
    /\ UNCHANGED <<within_thread_memory, config, messages, input_messages, memories,
                   system_msg, produced>>
    /\ UNCHANGED <<env_vars, demo_vars>>

RECURSIVE TurnsDone(_)
TurnsDone(threads) ==
    IF threads = {} THEN 0
    ELSE LET t == CHOOSE x \in threads : TRUE
         IN  turns_done[t] + TurnsDone(threads \ {t})

\* Every turn the bounds allow, with whatever the extractor may return.
Next ==
    \/ \E u \in Users, t \in Threads, c \in HumanContents :
           /\ TurnsDone(Threads) < MaxTurns
           /\ Invoke(u, t, c)
    \/ \E a \in AiContents : call_model(a)
    \/ \E x \in ExtractorResults(MemoryContents, 1..uuid_count,
                                  {k \in 0..MaxResponses : uuid_count + k <= MaxUuid}) :
           write_memory(x)

Spec == Init /\ [][Next]_vars

\* Turns of user "1" in which the extractor inserts one memory: enough of them
\* to fill the namespace past what one search returns.
NextLong ==
    \/ \E t \in Threads :
           /\ uuid_count <= MaxRecordsLong
           /\ Invoke("1", t, "Hi, my name is Lance")
    \/ \E a \in AiContents : call_model(a)
    \/ \E x \in ExtractorResults({"User likes to bike."}, {}, {1}) : write_memory(x)

SpecLong == Init /\ [][NextLong]_vars

(***************************************************************************)
(* The claims.                                                             *)
(***************************************************************************)
TurnStarted == config.user_id # None

\* C1: in every turn the nodes run in the order call_model, write_memory: when
\* call_model is about to run nothing has run, when write_memory is about to
\* run exactly call_model has run, and when the turn has ended each of the
\* two has run exactly once, call_model first.
C1_NodesRunOnceInOrder ==
    /\ pc \in Nodes \cup {END}
    /\ pc = "call_model" => ran = <<>>
    /\ pc = "write_memory" => ran = <<"call_model">>
    /\ (pc = END /\ TurnStarted) => ran = <<"call_model", "write_memory">>

C1_Witness ==
    /\ pc = END
    /\ ran = <<"call_model", "write_memory">>
    /\ turns_done["1"] = 2
    /\ turns_done["2"] = 1

\* C2: every step of a turn run with user id u leaves the records of every
\* namespace other than ("memories", u) as they were: write_memory's puts all
\* go to ("memories", u).
C2_OnlyOwnNamespaceWritten ==
    [][\A ns \in Namespaces :
          ns # <<"memories", config'.user_id>>
              => across_thread_memory'[ns] = across_thread_memory[ns]]_vars

C2_Witness ==
    /\ pc = END
    /\ TurnStarted
    /\ config.user_id = "2"
    /\ Len(result.responses) = 2
    /\ Len(across_thread_memory[<<"memories", "2">>]) = 2
    /\ Len(across_thread_memory[<<"memories", "1">>]) = 1

\* The records under the running turn's user namespace ("memories", user_id).
UserRecords(store) == store[<<"memories", config.user_id>>]

CallModelHasRun == ran = <<"call_model">>

\* C3: the memory text call_model puts in the system prompt is built from
\* exactly the records stored under ("memories", user_id): every record of
\* the namespace is among the memories it loaded, and the prompt lists them all.
C3_PromptFromAllRecords ==
    CallModelHasRun =>
        /\ memories = UserRecords(across_thread_memory)
        /\ system_msg = MODEL_SYSTEM_MESSAGE
                            \o format_info(UserRecords(across_thread_memory))

\* What holds of the code: the prompt is built from the first SearchLimit
\* records of the user's namespace, and from no other namespace.
C3_PromptFromFirstRecords ==
    CallModelHasRun =>
        /\ memories = Take(UserRecords(across_thread_memory), SearchLimit)
        /\ system_msg = MODEL_SYSTEM_MESSAGE \o format_info(memories)

\* C5: a record written by a turn on one thread is among the memories
\* call_model loads in a later turn of the same user on another thread.
C5_OtherThreadsRecordsLoaded ==
    CallModelHasRun =>
        \A i \in 1..Len(UserRecords(across_thread_memory)) :
            LET item == UserRecords(across_thread_memory)[i]
            IN  written_in[<<<<"memories", config.user_id>>, item.key>>] # config.thread_id
                    => \E j \in 1..Len(memories) : memories[j] = item

HasDocId(rmeta) == "json_doc_id" \in DOMAIN rmeta

\* The responses of `res` whose metadata does (with = TRUE) or does not carry
\* a json_doc_id, by index.
Carrying(res, with) ==
    {i \in 1..Len(res.responses) : HasDocId(res.response_metadata[i]) = with}

DocIds(res) == {res.response_metadata[i].json_doc_id : i \in Carrying(res, TRUE)}

\* The last response of `res` that names document d.
LastNaming(res, d) ==
    CHOOSE i \in Carrying(res, TRUE) :
        /\ res.response_metadata[i].json_doc_id = d
        /\ \A j \in Carrying(res, TRUE) :
               res.response_metadata[j].json_doc_id = d => j <= i

RECURSIVE SelectIndices(_, _, _)
SelectIndices(s, keep, i) ==
    IF i > Len(s) THEN <<>>
    ELSE (IF i \in keep THEN <<s[i]>> ELSE <<>>) \o SelectIndices(s, keep, i + 1)

AllKeys(store) == UNION {Keys(store[ns]) : ns \in Namespaces}

\* C4: for each (response, metadata) pair the extractor returned, write_memory
\* stores the response under the key json_doc_id when the metadata carries
\* one: a record that held that key keeps its place and gets the response as
\* its value (an update).  It stores the response under a key no record held
\* and no uuid4 call returned before when the metadata carries none (an
\* insert): the inserted records follow the old ones, one per such response,
\* in the order of the responses.
C4_UpdateOrInsertByDocId ==
    [][pc = "write_memory" =>
          LET before == UserRecords(across_thread_memory)
              after == UserRecords(across_thread_memory')
              res == result'
              inserted == SelectIndices(after,
                              {k \in 1..Len(after) :
                                  after[k].key \notin Keys(before) \cup DocIds(res)}, 1)
              unnamed == SelectIndices(res.responses, Carrying(res, FALSE), 1)
          IN  /\ \A d \in DocIds(res) :
                     /\ \E k \in 1..Len(after) :
                            /\ after[k].key = d
                            /\ after[k].value = [content |->
                                                    res.responses[LastNaming(res, d)].content]
                     /\ \A k \in 1..Len(before) :
                            before[k].key = d => after[k].key = d
              /\ Len(inserted) = Len(unnamed)
              /\ \A k \in 1..Len(inserted) :
                     /\ inserted[k].value = [content |-> unnamed[k].content]
                     /\ inserted[k].key \notin AllKeys(across_thread_memory)
                     /\ inserted[k].key > uuid_count
                     /\ \A j \in 1..Len(inserted) :
                            inserted[j].key = inserted[k].key => j = k]_vars

\* write_memory has run with an update of the record under key 1 and an insert.
C4_Witness ==
    /\ pc = END
    /\ Len(result.responses) = 2
    /\ Carrying(result, TRUE) = {1}
    /\ result.response_metadata[1].json_doc_id = 1
    /\ Len(UserRecords(across_thread_memory)) = 2
    /\ UserRecords(across_thread_memory)[1].key = 1
    /\ UserRecords(across_thread_memory)[2].key = 3
    /\ UserRecords(across_thread_memory)[1].value = result.responses[1]
    /\ UserRecords(across_thread_memory)[2].value = result.responses[2]
    /\ result.responses[1] # result.responses[2]

\* C7: every namespace starts with zero records, and a write_memory run whose
\* json_doc_ids are distinct and each name a key present in the user's
\* namespace leaves in it the records it held plus one per response without
\* a json_doc_id; the records no json_doc_id names keep their key and value.
C7_CollectionGrowsByInserts ==
    /\ \A ns \in Namespaces : Len(across_thread_memory[ns]) = 0
    /\ [][pc = "write_memory" =>
             LET before == UserRecords(across_thread_memory)
                 after == UserRecords(across_thread_memory')
                 res == result'
             IN  (/\ DocIds(res) \subseteq Keys(before)
                  /\ Cardinality(DocIds(res)) = Cardinality(Carrying(res, TRUE)))
                 => /\ Len(after) = Len(before) + Cardinality(Carrying(res, FALSE))
                    /\ \A k \in 1..Len(before) :
                           before[k].key \notin DocIds(res) => after[k] = before[k]]_vars

\* A second write_memory run has inserted a record beside two older ones,
\* which are still there.
C7_Witness ==
    /\ pc = END
    /\ turns_done["1"] = 2
    /\ Len(result.responses) = 1
    /\ Carrying(result, TRUE) = {}
    /\ Len(UserRecords(across_thread_memory)) = 3
    /\ \A k \in 1..3 : UserRecords(across_thread_memory)[k].key = k
    /\ UserRecords(across_thread_memory)[1].value
           # UserRecords(across_thread_memory)[3].value

RECURSIVE Concat(_)
Concat(seqs) == IF seqs = <<>> THEN <<>> ELSE Head(seqs) \o Concat(Tail(seqs))

\* A message without its id: what the caller or the model handed over.
Bare(m) == [type |-> m.type, content |-> m.content]

BareAll(msgs) == [i \in 1..Len(msgs) |-> Bare(msgs[i])]

\* The messages of the turns that ran on thread t before the running one.
EarlierTurns(t) == Concat(SubSeq(produced[t], 1, turns_done[t]))

\* The messages the running turn on thread t has added so far.
OwnTurn(t) == produced[t][Len(produced[t])]

NoForeignMessage(t) ==
    /\ \A i \in 1..Len(messages) : messages[i].id[1] = t
    /\ \A t2 \in Threads \ {t} : \A n \in 1..Len(produced[t2]) :
           \A k \in 1..Len(produced[t2][n]) :
               \A i \in 1..Len(messages) : messages[i] # produced[t2][n][k]

\* C6 as stated: the history call_model and write_memory see on thread t is
\* the messages of the earlier turns on t followed by the new input, and
\* nothing else.
C6_HistoryIsEarlierTurnsPlusInput ==
    pc \in Nodes =>
        LET t == config.thread_id
        IN  /\ Len(messages) = Len(EarlierTurns(t)) + Len(input_messages)
            /\ SubSeq(messages, 1, Len(EarlierTurns(t))) = EarlierTurns(t)
            /\ BareAll(SubSeq(messages, Len(EarlierTurns(t)) + 1, Len(messages)))
                   = BareAll(input_messages)
            /\ NoForeignMessage(t)

\* C6 as amended: call_model sees the messages of the earlier turns on the
\* same thread followed by the new input; write_memory sees these followed by
\* the response call_model produced in this turn; neither sees a message of
\* another thread, and on a thread's first turn there are no earlier messages.
C6_HistoryWithinThread ==
    pc \in Nodes =>
        LET t == config.thread_id
            earlier == EarlierTurns(t)
            own == SubSeq(messages, Len(earlier) + 1, Len(messages))
        IN  /\ Len(produced[t]) = turns_done[t] + 1
            /\ Len(earlier) + Len(input_messages) <= Len(messages)
            /\ SubSeq(messages, 1, Len(earlier)) = earlier
            /\ turns_done[t] = 0 => earlier = <<>>
            /\ own = OwnTurn(t)
            /\ pc = "call_model" => BareAll(own) = BareAll(input_messages)
            /\ pc = "write_memory" =>
                   /\ Len(own) = Len(input_messages) + 1
                   /\ BareAll(SubSeq(own, 1, Len(input_messages))) = BareAll(input_messages)
                   /\ own[Len(own)].type = "ai"
            /\ NoForeignMessage(t)

\* write_memory is about to run in the second turn on thread "2", after a turn
\* on thread "1".
C6_Witness ==
    /\ pc = "write_memory"
    /\ config.thread_id = "2"
    /\ turns_done["2"] = 1
    /\ turns_done["1"] = 1
    /\ Len(messages) = 4

\* C8: every value stored under a ("memories", user) namespace is a mapping
\* whose only field is content, holding a text; so is the value of every
\* memory call_model loaded, whose ['content'] it reads.
C8_ValuesHoldOnlyContent ==
    /\ \A u \in Users : \A i \in 1..Len(across_thread_memory[<<"memories", u>>]) :
           LET value == across_thread_memory[<<"memories", u>>][i].value
           IN  /\ DOMAIN value = {"content"}
               /\ value["content"] \in MemoryContents
    /\ \A i \in 1..Len(memories) : DOMAIN memories[i].value = {"content"}

\* call_model has read two stored records.
C8_Witness ==
    /\ CallModelHasRun
    /\ Len(memories) = 2
    /\ memories[1].value["content"] # memories[2].value["content"]

\* C9: a _set_env(var) call on a variable that holds a non-empty value does
\* not prompt and leaves the value as it is; on a variable that is unset or
\* empty it prompts and sets the variable to what was entered; no call
\* touches the other key; and once a call has left a non-empty value, a
\* second call changes nothing, whatever would be entered.
C9_SetEnvPromptsOnlyWhenNeeded ==
    [][LET var == env_call'.var
           old == environ[var]
       IN  /\ env_call'.read = old
           /\ (old # None /\ old # "") =>
                  /\ ~env_call'.prompted
                  /\ environ'[var] = old
           /\ (old = None \/ old = "") =>
                  /\ env_call'.prompted
                  /\ environ'[var] = env_call'.entered
           /\ \A other \in EnvVars \ {var} : environ'[other] = environ[other]
           /\ (environ'[var] # None /\ environ'[var] # "") =>
                  \A again \in EnvValues : _set_env(environ', var, again) = environ'
      ]_env_vars

\* A call found OPENAI_API_KEY set and did not prompt, after the cell that sets
\* LANGSMITH_API_KEY had run.
C9_Witness ==
    /\ env_call.var = "OPENAI_API_KEY"
    /\ ~env_call.prompted
    /\ env_call.read = "key-b"
    /\ environ["OPENAI_API_KEY"] = "key-b"
    /\ environ["LANGSMITH_API_KEY"] = "key-a"
    /\ environ["LANGSMITH_TRACING"] = "true"

NewKeys(before, after) == Keys(after) \ Keys(before)

\* C11: call_model reads the store before write_memory of the same turn
\* writes to it: starting a turn and running call_model leave the store as
\* the completed turns left it, the memories in the turn's prompt are exactly
\* the records that store holds for the user, and they are still exactly the
\* records the store held before the turn's own write_memory wrote, none of
\* whose new records is among them.
C11_PromptFromStoreOfEarlierTurns ==
    [][/\ pc \in {END, "call_model"} => across_thread_memory' = across_thread_memory
       /\ pc = "call_model" =>
              /\ memories' = UserRecords(across_thread_memory)
              /\ system_msg' = MODEL_SYSTEM_MESSAGE
                                   \o format_info(UserRecords(across_thread_memory))
       /\ pc = "write_memory" =>
              /\ memories' = UserRecords(across_thread_memory)
              /\ system_msg' = system_msg
              /\ \A k \in NewKeys(UserRecords(across_thread_memory),
                                  UserRecords(across_thread_memory')) :
                     k \notin Keys(memories')]_vars

\* What holds of the code: the prompt's memories are the first SearchLimit
\* records of the store the completed turns left, and no record the turn's
\* own write_memory adds is among them.
C11_PromptFromFirstRecordsOfEarlierTurns ==
    [][/\ pc \in {END, "call_model"} => across_thread_memory' = across_thread_memory
       /\ pc = "call_model" =>
              /\ memories' = Take(UserRecords(across_thread_memory), SearchLimit)
              /\ system_msg' = MODEL_SYSTEM_MESSAGE \o format_info(memories')
       /\ pc = "write_memory" =>
              /\ memories' = Take(UserRecords(across_thread_memory), SearchLimit)
              /\ system_msg' = system_msg
              /\ \A k \in NewKeys(UserRecords(across_thread_memory),
                                  UserRecords(across_thread_memory')) :
                     k \notin Keys(memories')]_vars

\* C12: write_memory reflects on the whole chat history of the turn.  When
\* call_model runs it appends its response, an AI message, to the thread's
\* history; the messages write_memory passes to the extractor are the
\* Trustcall instruction system message followed by that history, which is
\* the messages of the thread's earlier turns, this turn's input and, last,
\* the response call_model produced in this turn.
C12_ExtractorGetsInstructionAndHistory ==
    [][LET t == config.thread_id
       IN  /\ pc = "call_model" =>
                  /\ Len(messages') = Len(messages) + 1
                  /\ SubSeq(messages', 1, Len(messages)) = messages
                  /\ messages'[Len(messages')].type = "ai"
                  /\ produced'[t][Len(produced'[t])]
                         = Append(OwnTurn(t), messages'[Len(messages')])
           /\ pc = "write_memory" =>
                  LET passed == extractor_input'.messages
                      history == within_thread_memory[t]
                  IN  /\ Len(passed) = Len(history) + 1
                      /\ passed[1] = [type |-> "system",
                                      content |-> TRUSTCALL_INSTRUCTION,
                                      id |-> NoId]
                      /\ Tail(passed) = history
                      /\ history = EarlierTurns(t) \o OwnTurn(t)
                      /\ BareAll(OwnTurn(t)) =
                             Append(BareAll(input_messages),
                                    Bare(history[Len(history)]))
                      /\ history[Len(history)].type = "ai"]_vars

\* write_memory has run in the second turn on thread "1": the extractor got
\* the instruction and the four messages of the two turns.
C12_Witness ==
    /\ pc = END
    /\ ran = <<"call_model", "write_memory">>
    /\ config.thread_id = "1"
    /\ turns_done["1"] = 2
    /\ Len(extractor_input.messages) = 5
    /\ extractor_input.messages[1].type = "system"
    /\ extractor_input.messages[4].type = "human"
    /\ extractor_input.messages[5].type = "ai"
    /\ extractor_input.messages[5] = within_thread_memory["1"][4]

\* One (key, "Memory", value) triple per record, in the records' order.
Triples(records) ==
    [i \in 1..Len(records) |-> <<records[i].key, "Memory", records[i].value>>]

\* C13: write_memory passes the existing memories to the extractor as one
\* (key, "Memory", value) triple per record stored under the user's namespace
\* when it runs, the record's own store key as identifier, and passes None
\* instead of an empty list when the namespace holds no record.
C13_ExistingIsOneTriplePerRecord ==
    [][pc = "write_memory" =>
          LET records == UserRecords(across_thread_memory)
          IN  /\ records = <<>> => extractor_input'.existing = PyNone
              /\ records # <<>> =>
                     extractor_input'.existing = PyList(Triples(records))]_vars

\* What holds of the code: the triples are those of the first SearchLimit
\* records of the namespace, and None is passed for an empty namespace.
C13_ExistingIsTriplesOfFirstRecords ==
    [][pc = "write_memory" =>
          LET records == UserRecords(across_thread_memory)
          IN  /\ records = <<>> => extractor_input'.existing = PyNone
              /\ records # <<>> =>
                     extractor_input'.existing
                         = PyList(Triples(Take(records, SearchLimit)))]_vars

====
